---- MODULE Spec2Model ----
(***************************************************************************)
(* notasimdlib.h: macro-generated fixed-width vector types, elementwise    *)
(* operations, reductions and the dot product, with the call sites of the  *)
(* demonstration program.  Every macro is modelled by its expansion: the   *)
(* locals it declares (c, accum, i), the loop it runs and the textual      *)
(* substitution of its operand arguments into that scope.                  *)
(***************************************************************************)
EXTENDS Integers, Sequences, FiniteSets, TLC

VARIABLES T, XLEN, env, pc, call, a, b, i, accum, c, j, ci, result,
          visits, ivisits, touched, T2, XLEN2, decl, decl2

vars == <<T, XLEN, env, pc, call, a, b, i, accum, c, j, ci, result,
          visits, ivisits, touched, T2, XLEN2, decl, decl2>>

machine == <<pc, call, a, b, i, accum, c, j, ci, result, visits, ivisits, touched>>

(* ----------------------------- bounds ---------------------------------- *)

\* Largest register width (bits) of the arithmetic machine.
MaxXLEN == 16
\* Largest register width (bits) of the declaration machine.
MaxWidth == 256
\* Largest register width (bits) when two declarations are compared.
MaxNameWidth == 30

(* ----------------------------- scalar types ---------------------------- *)

\* Scalar type names, as the tokens simd_t pastes.  The arithmetic machine
\* instantiates the macros with int8_t and int16_t: their operands are
\* promoted to int, so every elementwise result is defined and the store
\* into the T object wraps; the declarations also use the demonstration's
\* int and float.

int8_t == <<"i", "n", "t", "8", "_", "t">>
int16_t == <<"i", "n", "t", "1", "6", "_", "t">>
int_t == <<"i", "n", "t">>
float_t == <<"f", "l", "o", "a", "t">>
double_t == <<"d", "o", "u", "b", "l", "e">>
\* A user typedef whose name ends in a digit (typedef int int1;).
int1_t == <<"i", "n", "t", "1">>

\* sizeof(T) on the usual ILP32/LP64 targets.
sizeof(t) ==
    CASE t = int8_t -> 1
      [] t = int16_t -> 2
      [] t = int_t -> 4
      [] t = int1_t -> 4
      [] t = float_t -> 4
      [] t = double_t -> 8

VLENCeil(t) == (XLEN + 8 * sizeof(t) - 1) \div (8 * sizeof(t))

\* #define VLEN(T) (XLEN / (8 * sizeof(T)))
VLEN(t) == XLEN \div (8 * sizeof(t))

Pow2(n) == 2 ^ n

\* Storing an int result into a T object: T is narrower than int, so the
\* arithmetic is done in int and the store reduces it modulo 2^(8*sizeof(T)).
Wrap(x) ==
    LET w == Pow2(8 * sizeof(T))
        h == w \div 2
    IN  ((x + h) % w) - h

Abs(x) == IF x < 0 THEN -x ELSE x

\* C's integer division: the quotient truncated toward zero.
CDiv(x, y) ==
    IF (x < 0) = (y < 0) THEN Abs(x) \div Abs(y) ELSE -(Abs(x) \div Abs(y))

(* ----------------------------- values ---------------------------------- *)

\* Element values the call sites store in their vectors.
Vals == {-7, 0, 100}

\* What a read of an uninitialized element, or a non-trapping division by
\* zero, may yield (a sample of the scalar range).
Indeterminate == {-7, 0, 100}

\* Marks an element of a local vector that has not been assigned.
Undef == Pow2(15)

Fault == Pow2(15) + 1

Indices == 0 .. (VLEN(T) - 1)

\* Identifiers of the call site's vector variables.
Names == {"veca", "vecb", "c"}

Ops == {"+", "-", "*", "/"}

Uninit == [k \in Indices |-> Undef]

NoVec == <<>>

NoCall == [kind |-> "none", op |-> "none", na |-> "none", nb |-> "none"]

(* ----------------------------- helpers --------------------------------- *)

LoopCondInclusive(k) == k <= VLEN(T)

\* The test of every generated loop: for (int i = 0; i < VLEN(T); i++)
LoopCond(k) == k < VLEN(T)

\* v.v[k] as an rvalue: the stored value, or any value when the element was
\* never assigned or lies outside the array.
ReadVals(v, k) ==
    IF k \in DOMAIN v /\ v[k] # Undef THEN {v[k]} ELSE Indeterminate

\* v.v[k] = x
Store(v, k, x) == IF k \in DOMAIN v THEN [v EXCEPT ![k] = x] ELSE v

\* x op y on two T values, before the store: the value, or the outcomes of
\* the undefined integer division by zero (a trap, or whatever the divide
\* instruction leaves).
ApplyOp(op, x, y) ==
    CASE op = "+" -> {x + y}
      [] op = "-" -> {x - y}
      [] op = "*" -> {x * y}
      [] op = "/" -> IF y = 0 THEN {Fault} \cup Indeterminate ELSE {CDiv(x, y)}

\* The vector an operand argument names inside a statement expression that
\* declares "simd_t(T) c": the argument is pasted textually, so the
\* identifier c names the macro's own local, not the caller's variable.
Lookup(n, local) == IF n = "c" THEN local ELSE env[n]

(* ----------------------------- initial state --------------------------- *)

ArithTypes == {int8_t, int16_t}

Idle ==
    /\ pc = "idle"
    /\ call = NoCall
    /\ a = NoVec
    /\ b = NoVec
    /\ i = 0
    /\ accum = 0
    /\ c = NoVec
    /\ j = 0
    /\ ci = NoVec
    /\ result = NoVec
    /\ visits = <<>>
    /\ ivisits = <<>>
    /\ touched = {}

NoDecl == [name |-> <<>>, len |-> 0, opn |-> <<>>, op |-> <<>>]

\* A translation unit: XLEN is fixed before the include, the call site's
\* vectors hold arbitrary values, nothing has been called yet.
Init ==
    /\ T \in ArithTypes
    /\ XLEN \in 1 .. MaxXLEN
    /\ env \in [Names -> [Indices -> Vals]]
    /\ Idle
    /\ T2 = T
    /\ XLEN2 = XLEN
    /\ decl = NoDecl
    /\ decl2 = NoDecl

static == <<T, XLEN, env, T2, XLEN2, decl, decl2>>

(* ----------------------------- simd_apply_binop ------------------------ *)

\* simd_apply_binop(T, na, nb, op): ({ simd_t(T) c; for (int i = 0; ...
CallBinop(op, na, nb) ==
    /\ pc = "idle"
    /\ pc' = "loop"
    /\ call' = [kind |-> "binop", op |-> op, na |-> na, nb |-> nb]
    /\ c' = Uninit
    /\ i' = 0
    /\ UNCHANGED <<a, b, accum, j, ci, result, visits, ivisits, touched, static>>

\* c.v[i] = (a).v[i] op (b).v[i]; i++
BinopBody ==
    /\ pc = "loop"
    /\ call.kind = "binop"
    /\ LoopCond(i)
    /\ \E x \in ReadVals(Lookup(call.na, c), i),
          y \in ReadVals(Lookup(call.nb, c), i) :
         \E r \in ApplyOp(call.op, x, y) :
            IF r = Fault
            THEN /\ pc' = "fault"
                 /\ UNCHANGED <<c, i>>
            ELSE /\ pc' = pc
                 /\ c' = Store(c, i, Wrap(r))
                 /\ i' = i + 1
    /\ visits' = Append(visits, i)
    /\ touched' = touched \cup {i}
    /\ UNCHANGED <<call, a, b, accum, j, ci, result, ivisits, static>>

\* c; })
BinopReturn ==
    /\ pc = "loop"
    /\ call.kind = "binop"
    /\ ~LoopCond(i)
    /\ pc' = "done"
    /\ result' = c
    /\ UNCHANGED <<call, a, b, i, accum, c, j, ci, visits, ivisits, touched, static>>

(* ----------------------------- decl_simd_bin_op ------------------------ *)

\* simd_bin_op(name, T, na, nb): a call of the function decl_simd_bin_op
\* defined; the arguments are evaluated at the call site and copied into
\* the parameters a and b.
CallDeclared(op, na, nb) ==
    /\ pc = "idle"
    /\ pc' = "loop"
    /\ call' = [kind |-> "declared", op |-> op, na |-> na, nb |-> nb]
    /\ a' = env[na]
    /\ b' = env[nb]
    /\ c' = Uninit
    /\ i' = 0
    /\ UNCHANGED <<accum, j, ci, result, visits, ivisits, touched, static>>

\* c.v[i] = a.v[i] op b.v[i]; i++
DeclaredBody ==
    /\ pc = "loop"
    /\ call.kind = "declared"
    /\ LoopCond(i)
    /\ \E x \in ReadVals(a, i), y \in ReadVals(b, i) :
         \E r \in ApplyOp(call.op, x, y) :
            IF r = Fault
            THEN /\ pc' = "fault"
                 /\ UNCHANGED <<c, i>>
            ELSE /\ pc' = pc
                 /\ c' = Store(c, i, Wrap(r))
                 /\ i' = i + 1
    /\ visits' = Append(visits, i)
    /\ touched' = touched \cup {i}
    /\ UNCHANGED <<call, a, b, accum, j, ci, result, ivisits, static>>

\* return c;
DeclaredReturn ==
    /\ pc = "loop"
    /\ call.kind = "declared"
    /\ ~LoopCond(i)
    /\ pc' = "done"
    /\ result' = c
    /\ UNCHANGED <<call, a, b, i, accum, c, j, ci, visits, ivisits, touched, static>>

(* ----------------------------- simd_apply_sum -------------------------- *)

\* T accum = 0;
AccumInit == 0

\* simd_apply_sum(T, na): ({ T accum = 0; for (int i = 0; ...
CallSum(na) ==
    /\ pc = "idle"
    /\ pc' = "loop"
    /\ call' = [kind |-> "sum", op |-> "+", na |-> na, nb |-> na]
    /\ accum' = AccumInit
    /\ i' = 0
    /\ UNCHANGED <<a, b, c, j, ci, result, visits, ivisits, touched, static>>

\* accum += (a).v[i]; i++
SumBody ==
    /\ pc = "loop"
    /\ call.kind = "sum"
    /\ LoopCond(i)
    /\ \E x \in ReadVals(env[call.na], i) : accum' = Wrap(accum + x)
    /\ i' = i + 1
    /\ visits' = Append(visits, i)
    /\ touched' = touched \cup {i}
    /\ UNCHANGED <<pc, call, a, b, c, j, ci, result, ivisits, static>>

\* accum; })
SumReturn ==
    /\ pc = "loop"
    /\ call.kind = "sum"
    /\ ~LoopCond(i)
    /\ pc' = "done"
    /\ result' = accum
    /\ UNCHANGED <<call, a, b, i, accum, c, j, ci, visits, ivisits, touched, static>>

(* ----------------------------- simd_apply_dot -------------------------- *)

\* simd_apply_dot(T, na, nb) = simd_apply_sum(T, simd_apply_mul(T, na, nb)):
\* the multiplication's statement expression is the operand of the sum, so
\* it is expanded inside the body of the sum's loop.
CallDot(na, nb) ==
    /\ pc = "idle"
    /\ pc' = "loop"
    /\ call' = [kind |-> "dot", op |-> "*", na |-> na, nb |-> nb]
    /\ accum' = AccumInit
    /\ i' = 0
    /\ UNCHANGED <<a, b, c, j, ci, result, visits, ivisits, touched, static>>

\* The sum's body starts to evaluate its operand: ({ simd_t(T) c;
\* for (int i = 0; ...  The inner c and i are new objects that shadow the
\* sum's i until the statement expression ends.
DotEnter ==
    /\ pc = "loop"
    /\ call.kind = "dot"
    /\ LoopCond(i)
    /\ pc' = "inner"
    /\ ci' = Uninit
    /\ j' = 0
    /\ ivisits' = <<>>
    /\ visits' = Append(visits, i)
    /\ UNCHANGED <<call, a, b, i, accum, c, result, touched, static>>

\* c.v[i] = (a).v[i] * (b).v[i]; i++     (the inner c and i)
DotInnerBody ==
    /\ pc = "inner"
    /\ LoopCond(j)
    /\ \E x \in ReadVals(Lookup(call.na, ci), j),
          y \in ReadVals(Lookup(call.nb, ci), j) :
         ci' = Store(ci, j, Wrap(x * y))
    /\ j' = j + 1
    /\ ivisits' = Append(ivisits, j)
    /\ touched' = touched \cup {j}
    /\ UNCHANGED <<pc, call, a, b, i, accum, c, result, visits, static>>

\* c; }) ends the operand; accum += (...).v[i]; i++   (the sum's i)
DotInnerExit ==
    /\ pc = "inner"
    /\ ~LoopCond(j)
    /\ pc' = "loop"
    /\ \E x \in ReadVals(ci, i) : accum' = Wrap(accum + x)
    /\ i' = i + 1
    /\ touched' = touched \cup {i}
    /\ UNCHANGED <<call, a, b, c, j, ci, result, visits, ivisits, static>>

\* accum; })
DotReturn ==
    /\ pc = "loop"
    /\ call.kind = "dot"
    /\ ~LoopCond(i)
    /\ pc' = "done"
    /\ result' = accum
    /\ UNCHANGED <<call, a, b, i, accum, c, j, ci, visits, ivisits, touched, static>>

(* ----------------------------- reductions ------------------------------ *)

\* The combining steps the call sites supply, as a function and as an
\* expression over accum, i and the vectors:
\*   "dot"  accum + (a.v[i] * b.v[i])
\*   "dbl"  accum * 2 + a.v[i]
\*   "rsub" a.v[i] - accum
Combiners == {"dot", "dbl", "rsub"}

Comb(f, acc, x, y) ==
    CASE f = "dot" -> acc + (x * y)
      [] f = "dbl" -> acc * 2 + x
      [] f = "rsub" -> x - acc

\* The values one evaluation of the combining step at index k may store in
\* accum (a T object).
CombineVals(f, acc, k, A, B) ==
    {Wrap(Comb(f, acc, x, y)) : x \in ReadVals(A, k), y \in ReadVals(B, k)}

FuncStepDescending(f, acc, k) ==
    CombineVals(f, acc, VLEN(T) - 1 - k, env[call.na], env[call.nb])

\* accum = func(accum, i, __VA_ARGS__): the vectors are passed by value.
FuncStep(f, acc, k) == CombineVals(f, acc, k, env[call.na], env[call.nb])

\* accum = expr: the expression is pasted into the loop body, where accum
\* and i are the macro's locals and the vectors are the caller's variables.
ExprStep(f, acc, k) == CombineVals(f, acc, k, env[call.na], env[call.nb])

\* simd_reduce_func(T, f, na, nb) and simd_reduce_expr(T, expr, na, nb)
CallReduce(kind, f, na, nb) ==
    /\ pc = "idle"
    /\ pc' = "loop"
    /\ call' = [kind |-> kind, op |-> f, na |-> na, nb |-> nb]
    /\ accum' = AccumInit
    /\ i' = 0
    /\ UNCHANGED <<a, b, c, j, ci, result, visits, ivisits, touched, static>>

ReduceFuncBody ==
    /\ pc = "loop"
    /\ call.kind = "reduce_func"
    /\ LoopCond(i)
    /\ accum' \in FuncStep(call.op, accum, i)
    /\ i' = i + 1
    /\ visits' = Append(visits, i)
    /\ touched' = touched \cup {i}
    /\ UNCHANGED <<pc, call, a, b, c, j, ci, result, ivisits, static>>

ReduceExprBody ==
    /\ pc = "loop"
    /\ call.kind = "reduce_expr"
    /\ LoopCond(i)
    /\ accum' \in ExprStep(call.op, accum, i)
    /\ i' = i + 1
    /\ visits' = Append(visits, i)
    /\ touched' = touched \cup {i}
    /\ UNCHANGED <<pc, call, a, b, c, j, ci, result, ivisits, static>>

\* accum; })
ReduceReturn ==
    /\ pc = "loop"
    /\ call.kind \in {"reduce_func", "reduce_expr"}
    /\ ~LoopCond(i)
    /\ pc' = "done"
    /\ result' = accum
    /\ UNCHANGED <<call, a, b, i, accum, c, j, ci, visits, ivisits, touched, static>>

(* ----------------------------- the arithmetic machine ------------------ *)

Next ==
    \/ \E op \in Ops, na \in Names, nb \in Names : CallBinop(op, na, nb)
    \/ BinopBody
    \/ BinopReturn
    \/ \E op \in Ops, na \in Names, nb \in Names : CallDeclared(op, na, nb)
    \/ DeclaredBody
    \/ DeclaredReturn
    \/ \E na \in Names : CallSum(na)
    \/ SumBody
    \/ SumReturn
    \/ \E na \in Names, nb \in Names : CallDot(na, nb)
    \/ DotEnter
    \/ DotInnerBody
    \/ DotInnerExit
    \/ DotReturn
    \/ \E f \in Combiners, na \in Names, nb \in Names :
          CallReduce("reduce_func", f, na, nb)
    \/ \E f \in Combiners, na \in Names, nb \in Names :
          CallReduce("reduce_expr", f, na, nb)
    \/ ReduceFuncBody
    \/ ReduceExprBody
    \/ ReduceReturn

Spec == Init /\ [][Next]_vars

(* ----------------------------- declarations ---------------------------- *)

\* #define PPCAT_NX(A, B) A##B
PPCAT_NX(A, B) == A \o B

\* #define PPCAT(A, B) PPCAT_NX(A, B)
PPCAT(A, B) == PPCAT_NX(A, B)

Digit(d) ==
    CASE d = 0 -> "0" [] d = 1 -> "1" [] d = 2 -> "2" [] d = 3 -> "3"
      [] d = 4 -> "4" [] d = 5 -> "5" [] d = 6 -> "6" [] d = 7 -> "7"
      [] d = 8 -> "8" [] d = 9 -> "9"

RECURSIVE Spelling(_)
\* The token XLEN expands to: the width as the #define spells it, in decimal.
Spelling(w) ==
    IF w < 10 THEN <<Digit(w)>> ELSE Spelling(w \div 10) \o <<Digit(w % 10)>>

\* #define simd_t(T) PPCAT(simd_,PPCAT(v,PPCAT(T,PPCAT(XLEN,_t))))
\* in a translation unit whose XLEN is w.
simd_t(t, w) ==
    PPCAT(<<"s", "i", "m", "d", "_">>,
          PPCAT(<<"v">>, PPCAT(t, PPCAT(Spelling(w), <<"_", "t">>))))

\* #define simd_op_name(T,name) PPCAT(name,PPCAT(_,simd_t(T)))
simd_op_name(t, name, w) == PPCAT(name, PPCAT(<<"_">>, simd_t(t, w)))

DeclTypes == {int8_t, int16_t, int_t, int1_t, float_t, double_t}

\* Operation names given to decl_simd_bin_op.
OpNames == {<<"a", "d", "d">>, <<"d", "i", "v">>}

NoEnv == [n \in Names |-> NoVec]

\* One translation unit that has declared nothing yet.
InitDecl ==
    /\ T \in DeclTypes
    /\ XLEN \in 1 .. MaxWidth
    /\ T2 = float_t
    /\ XLEN2 = XLEN
    /\ env = NoEnv
    /\ Idle
    /\ decl = NoDecl
    /\ decl2 = NoDecl

\* Two translation units, each with its own scalar type and XLEN.
InitName ==
    /\ T \in DeclTypes
    /\ XLEN \in 1 .. MaxNameWidth
    /\ T2 \in DeclTypes
    /\ XLEN2 \in 1 .. MaxNameWidth
    /\ env = NoEnv
    /\ Idle
    /\ decl = NoDecl
    /\ decl2 = NoDecl

\* decl_simd_t(T): typedef struct simd_t(T) { T v[VLEN(T)]; } simd_t(T);
DeclSimdT ==
    /\ decl.name = <<>>
    /\ decl' = [decl EXCEPT !.name = simd_t(T, XLEN), !.len = VLEN(T)]
    /\ UNCHANGED <<T, XLEN, env, T2, XLEN2, decl2, machine>>

\* decl_simd_bin_op(name, T, op): defines the function simd_op_name(T,name).
DeclSimdBinOp(name) ==
    /\ decl.name # <<>>
    /\ decl.op = <<>>
    /\ decl' = [decl EXCEPT !.opn = name, !.op = simd_op_name(T, name, XLEN)]
    /\ UNCHANGED <<T, XLEN, env, T2, XLEN2, decl2, machine>>

\* The same two declarations in the second translation unit.
DeclSimdT2 ==
    /\ decl2.name = <<>>
    /\ decl2' = [decl2 EXCEPT !.name = simd_t(T2, XLEN2),
                              !.len = XLEN2 \div (8 * sizeof(T2))]
    /\ UNCHANGED <<T, XLEN, env, T2, XLEN2, decl, machine>>

DeclSimdBinOp2(name) ==
    /\ decl2.name # <<>>
    /\ decl2.op = <<>>
    /\ decl2' = [decl2 EXCEPT !.opn = name, !.op = simd_op_name(T2, name, XLEN2)]
    /\ UNCHANGED <<T, XLEN, env, T2, XLEN2, decl, machine>>

NextDecl ==
    \/ DeclSimdT
    \/ \E name \in OpNames : DeclSimdBinOp(name)

SpecDecl == InitDecl /\ [][NextDecl]_vars

NextName ==
    \/ DeclSimdT
    \/ \E name \in OpNames : DeclSimdBinOp(name)
    \/ DeclSimdT2
    \/ \E name \in OpNames : DeclSimdBinOp2(name)

SpecName == InitName /\ [][NextName]_vars

(* ----------------------------- reference semantics --------------------- *)

\* a op b as the claims state it (the divisor is not zero).
Native(op, x, y) ==
    CASE op = "+" -> x + y
      [] op = "-" -> x - y
      [] op = "*" -> x * y
      [] op = "/" -> CDiv(x, y)

RECURSIVE LeftFold(_, _, _, _)
\* f(...f(f(0, 0), 1)..., n-1): the fold of the first n indices, ascending.
LeftFold(f, A, B, n) ==
    IF n = 0 THEN 0
    ELSE Wrap(Comb(f, LeftFold(f, A, B, n - 1), A[n - 1], B[n - 1]))

RECURSIVE RightFold(_, _, _, _, _)
\* The same steps taken from index n-1 down to index k.
RightFold(f, A, B, k, n) ==
    IF k = n THEN 0
    ELSE Wrap(Comb(f, RightFold(f, A, B, k + 1, n), A[k], B[k]))

Ascending(n) == [k \in 1 .. n |-> k - 1]

HasZero(v) == \E k \in DOMAIN v : v[k] = 0

FirstZero(v) == CHOOSE k \in DOMAIN v : v[k] = 0 /\ \A m \in DOMAIN v : v[m] = 0 => k <= m

OperandA == env[call.na]

OperandB == env[call.nb]

Returned == pc = "done"

(* ----------------------------- C1 -------------------------------------- *)

\* C1: when a built-in simd_apply_add/sub/mul/div returns, every element k
\* of the returned vector is a[k] op b[k] for the operand vectors a and b
\* (the truncating quotient for /, wherever the divisor is not zero).
C1_BinopElementwise ==
    (Returned /\ call.kind = "binop") =>
        \A k \in Indices :
            \/ call.op = "/" /\ OperandB[k] = 0
            \/ result[k] = Wrap(Native(call.op, OperandA[k], OperandB[k]))

\* The same statement for call sites whose operand identifiers are not c.
BinopElementwiseHygienic ==
    (call.na # "c" /\ call.nb # "c") => C1_BinopElementwise

(* ----------------------------- C2 -------------------------------------- *)

\* C2: simd_apply_dot, which is simd_apply_sum of simd_apply_mul, returns
\* the ascending left fold ((0 + a[0]*b[0]) + a[1]*b[1]) + ... of its operand
\* vectors, wrapping at every step.
C2_DotIsLeftFold ==
    (Returned /\ call.kind = "dot") =>
        result = LeftFold("dot", OperandA, OperandB, VLEN(T))

DotIsLeftFoldHygienic ==
    (call.na # "c" /\ call.nb # "c") => C2_DotIsLeftFold

(* ----------------------------- C3 -------------------------------------- *)

\* C3: the element count of a declared vector type is the truncating
\* quotient of XLEN by the scalar's bit width: the largest n with
\* n * 8 * sizeof(T) <= XLEN, exact when XLEN is a multiple (128/32 = 4,
\* 256/32 = 8) and rounded down otherwise (100/32 = 3).
C3_VlenTruncates ==
    decl.name # <<>> =>
        LET bits == 8 * sizeof(T)
        IN  /\ decl.len * bits <= XLEN
            /\ XLEN < (decl.len + 1) * bits
            /\ (XLEN % bits = 0 => decl.len * bits = XLEN)
            /\ (XLEN = 128 /\ sizeof(T) = 4 => decl.len = 4)
            /\ (XLEN = 256 /\ sizeof(T) = 4 => decl.len = 8)
            /\ (XLEN = 100 /\ sizeof(T) = 4 => decl.len = 3)

\* A width that is not a multiple of the scalar's: 100 bits of int.
C3_Witness ==
    /\ decl.name # <<>>
    /\ T = int_t
    /\ XLEN = 100
    /\ decl.len = 3

(* ----------------------------- C4 -------------------------------------- *)

\* C4: simd_reduce_func and simd_reduce_expr start from accum = 0 and apply
\* the combining step once per index in ascending order: after n iterations
\* accum is the left fold of indices 0..n-1, and the returned value is the
\* left fold of all VLEN(T) indices.
C4_ReduceIsLeftFold ==
    call.kind \in {"reduce_func", "reduce_expr"} =>
        /\ visits = Ascending(i)
        /\ accum = LeftFold(call.op, OperandA, OperandB, i)
        /\ Returned =>
              /\ i = VLEN(T)
              /\ result = LeftFold(call.op, OperandA, OperandB, VLEN(T))

\* A returned reduction whose step is not commutative, on two elements for
\* which the descending order gives another value.
C4_Witness ==
    /\ Returned
    /\ call.kind \in {"reduce_func", "reduce_expr"}
    /\ call.op \in {"rsub", "dbl"}
    /\ VLEN(T) = 2
    /\ result # RightFold(call.op, OperandA, OperandB, 0, VLEN(T))

(* ----------------------------- C5 -------------------------------------- *)

\* C5: a combining step given as a function and the same step given as an
\* expression reduce to identical results (both to the one left fold of the
\* operand vectors), and for the step accum + a[i]*b[i] that result is also
\* what simd_apply_dot returns.
C5_ReduceFormsAgree ==
    Returned =>
        /\ call.kind \in {"reduce_func", "reduce_expr"} =>
              result = LeftFold(call.op, OperandA, OperandB, VLEN(T))
        /\ call.kind = "dot" =>
              result = LeftFold("dot", OperandA, OperandB, VLEN(T))

(* ----------------------------- C6 -------------------------------------- *)

\* C6: two declarations generate the same type name exactly when they have
\* the same scalar type and the same width, and the same operation name only
\* when they also have the same operation name.
C6_NamesInjective ==
    /\ (decl.name # <<>> /\ decl2.name # <<>>) =>
          ((decl.name = decl2.name) <=> (T = T2 /\ XLEN = XLEN2))
    /\ (decl.op # <<>> /\ decl2.op # <<>>) =>
          ((decl.op = decl2.op) <=>
              (decl.opn = decl2.opn /\ T = T2 /\ XLEN = XLEN2))

EndsInDigit(t) == t[Len(t)] \in {Digit(d) : d \in 0 .. 9}

\* The same statement for scalar type names that do not end in a digit.
NamesInjectiveNoDigitSuffix ==
    (~EndsInDigit(T) /\ ~EndsInDigit(T2)) => C6_NamesInjective

(* ----------------------------- C7 -------------------------------------- *)

\* C7: an elementwise integer division returns a result vector if and only
\* if no element of the divisor vector is zero; otherwise it faults at the
\* first zero element, which the ascending loop never passes.
C7_DivFaultsIffZeroDivisor ==
    (call.kind \in {"binop", "declared"} /\ call.op = "/") =>
        /\ Returned => ~HasZero(OperandB)
        /\ pc = "fault" => HasZero(OperandB) /\ i = FirstZero(OperandB)
        /\ (pc = "loop" /\ HasZero(OperandB)) => i <= FirstZero(OperandB)

(* ----------------------------- C8 -------------------------------------- *)

RECURSIVE SumFold(_, _)
SumFold(A, n) == IF n = 0 THEN 0 ELSE Wrap(SumFold(A, n - 1) + A[n - 1])

\* The result of an operation as a function of its kind, its operator and
\* the element values of its operands alone.
PureResult(kind, op, A, B) ==
    CASE kind \in {"binop", "declared"} ->
            [k \in Indices |-> Wrap(Native(op, A[k], B[k]))]
      [] kind = "sum" -> SumFold(A, VLEN(T))
      [] kind = "dot" -> LeftFold("dot", A, B, VLEN(T))
      [] kind \in {"reduce_func", "reduce_expr"} -> LeftFold(op, A, B, VLEN(T))

\* C8: what an operation returns is determined by its operands' element
\* values, whatever identifiers name the operands at the call site (a
\* division with a zero divisor element aside).
C8_PureFunctionOfValues ==
    (Returned /\ ~(call.op = "/" /\ HasZero(OperandB))) =>
        result = PureResult(call.kind, call.op, OperandA, OperandB)

PureFunctionOfValuesHygienic ==
    (call.na # "c" /\ call.nb # "c") => C8_PureFunctionOfValues

(* ----------------------------- C9 -------------------------------------- *)

\* C9: the function decl_simd_bin_op defines and the built-in
\* simd_apply_binop return the same vector for the same operator and
\* operands: each returns result[k] = a[k] op b[k] for every index k.
C9_DeclaredEqualsBuiltin ==
    (Returned /\ call.kind \in {"binop", "declared"}
              /\ ~(call.op = "/" /\ HasZero(OperandB))) =>
        /\ DOMAIN result = Indices
        /\ \A k \in Indices :
              result[k] = Wrap(Native(call.op, OperandA[k], OperandB[k]))

\* The declared function alone computes a[k] op b[k].
DeclaredElementwise == call.kind = "declared" => C9_DeclaredEqualsBuiltin

(* ----------------------------- C10 ------------------------------------- *)

\* C10 as stated, at the call sites whose operands are veca and vecb: a loop
\* that has ended, by returning or by a fault, has visited every index
\* 0..VLEN(T)-1 exactly once.
C10_EveryLoopVisitsAll ==
    (pc \in {"done", "fault"} /\ call.na # "c" /\ call.nb # "c") =>
        visits = Ascending(VLEN(T))

\* C10, amended: every loop visits indices in ascending order from 0, each
\* at most once and none outside [0, VLEN(T)); it is never stuck; a loop
\* that returns has visited each index exactly once and has assigned every
\* element of a returned vector; a loop stops early only by a faulting
\* division, at the index it was visiting; in simd_apply_dot the inner loop
\* runs to completion for every outer index without moving the outer index.
C10_LoopsInBounds ==
    /\ touched \subseteq Indices
    /\ Len(visits) <= VLEN(T)
    /\ visits = Ascending(Len(visits))
    /\ Len(ivisits) <= VLEN(T)
    /\ ivisits = Ascending(Len(ivisits))
    /\ pc = "loop" => Len(visits) = i
    /\ (pc = "loop" /\ call.kind = "dot" /\ i > 0) => ivisits = Ascending(VLEN(T))
    /\ pc = "inner" => Len(visits) = i + 1 /\ Len(ivisits) = j
    /\ pc = "fault" => Len(visits) = i + 1 /\ call.op = "/"
    /\ pc \in {"loop", "inner"} => ENABLED Next
    /\ Returned =>
          /\ visits = Ascending(VLEN(T))
          /\ call.kind \in {"binop", "declared"} =>
                /\ DOMAIN result = Indices
                /\ \A k \in Indices : result[k] # Undef

\* simd_apply_dot has returned after its nested loops ran over two elements.
C10_Witness ==
    /\ Returned
    /\ call.kind = "dot"
    /\ VLEN(T) = 2
    /\ ivisits = Ascending(2)

====
